---- MODULE Spec2Model ----
(***************************************************************************)
(* A model of the LS-8 style emulator of cpu.py: the CPU object (ram, reg, *)
(* halted, pc, flags), the instruction handlers of its branch table and    *)
(* the fetch / dispatch / advance loop of CPU.run.                         *)
(*                                                                         *)
(* Python semantics that the handlers depend on are kept:                  *)
(*   - a list index i of a list of length n is valid for -n <= i < n, a    *)
(*     negative index counting from the end; any other index raises        *)
(*     IndexError, which ends run() with whatever was assigned so far;     *)
(*   - integers are unbounded: nothing wraps a register or a cell to 8     *)
(*     bits.                                                               *)
(***************************************************************************)
EXTENDS Integers, Sequences, FiniteSets, TLC

VARIABLES
    ram,      \* self.ram: 256 cells
    reg,      \* self.reg: 8 registers
    halted,   \* self.halted
    pc,       \* self.pc
    flags,    \* self.flags: <<L, G, E>>
    output,   \* what print() in prn has written, in order
    err,      \* how run() ended abnormally: "none", "IndexError", "exit1"
    report,   \* <<instruction, address>> of the unknown-instruction message
    last,     \* the instruction run() completed most recently, with the
              \* registers and flags it started from
    last2,    \* the instruction completed before that one
    lifo,     \* the PUSH and POP instructions completed so far
    lastcall, \* the CALL completed most recently: its address, the Stack
              \* Pointer it started from, and whether a RET has run since
    traced,   \* the line trace() printed since the last completed cycle:
              \* <<pc, three bytes at pc, registers>>, or <<>> if none
    seen,     \* what has happened so far: a register held a value outside
              \* 0..255 (wide), LDI, ADD, MUL or POP targeted register 7
              \* (r7target), a RET ran with the Stack Pointer at 0xF4
              \* (retreset)
    steps     \* number of completed cycles of the loop of run()

vars == <<ram, reg, halted, pc, flags, output, err, report, last, last2, lifo, lastcall,
         traced, seen, steps>>

machine == <<ram, reg, halted, pc, flags>>

----------------------------------------------------------------------------
(* Bounds of the model *)

MaxSteps == 10

MaxVal == 40000

----------------------------------------------------------------------------
(* Opcode constants, cpu.py lines 5-19 *)

HLT == 1

LDI == 130

PRN == 71

MUL == 162

PUSH == 69

POP == 70

CALL == 80

ADD == 160

RET == 17

CMP == 167

JMP == 84

JEQ == 85

JNE == 86

SP == 7

branchtable == {HLT, LDI, PRN, CMP, JEQ, ADD, MUL, PUSH, POP, RET, CALL, JMP, JNE}

----------------------------------------------------------------------------
(* Python list indexing on self.ram (length 256) and self.reg (length 8) *)

RamOK(address) == address >= -256 /\ address <= 255

RamIdx(address) == IF address < 0 THEN address + 256 ELSE address

RegOK(i) == i >= -8 /\ i <= 7

RegIdx(i) == IF i < 0 THEN i + 8 ELSE i

ram_read(address) == ram[RamIdx(address)]

ram_write(mem, address, value) == [mem EXCEPT ![RamIdx(address)] = value]

RegSet(r, i, value) == [r EXCEPT ![RegIdx(i)] = value]

----------------------------------------------------------------------------
(* Programs handed to load(): one byte per line of the program file, byte   *)
(* N placed at address N.  The programs are every two-instruction body      *)
(* over Alphabet, run from reset (Bare) or after a prelude that sets R0,   *)
(* R1 and R7 (TwoStep), followed by HLT, and a few longer programs.        *)

XY == {<<1, 1>>, <<1, 2>>, <<254, 2>>}

SPs == {244, 245, 11}

UnaryRegs == {0, 1, 7}

BinaryRegs == {<<0, 1>>, <<1, 0>>, <<0, 0>>, <<7, 1>>}

Alphabet ==
    {<<HLT>>, <<RET>>, <<255>>, <<LDI, 0, 3>>, <<LDI, 7, 243>>}
    \cup {<<op, r>> : op \in {PRN, PUSH, POP, CALL, JMP, JEQ, JNE}, r \in UnaryRegs}
    \cup {<<op, ab[1], ab[2]>> : op \in {MUL, ADD, CMP}, ab \in BinaryRegs}

Prelude(x, y, s) == <<LDI, 0, x, LDI, 1, y, LDI, 7, s>>

TwoStep ==
    {Prelude(xy[1], xy[2], s) \o i1 \o i2 \o <<HLT>> :
        xy \in XY, s \in SPs, i1 \in Alphabet, i2 \in Alphabet}

Mult == <<LDI, 0, 8, LDI, 1, 9, MUL, 0, 1, PRN, 0, HLT>>

PushPop3 ==
    {<<LDI, 0, 1, PUSH, 0, LDI, 0, 2, PUSH, 0, LDI, 0, 3, PUSH, 0,
       POP, a, POP, b, POP, c, HLT>> : a \in {0, 2}, b \in {1, 7}, c \in {2}}

CallRet ==
    <<LDI, 1, 9, CALL, 1, PRN, 0, HLT, 0,
      LDI, 0, 5, PUSH, 0, POP, 0, RET>>

CallAlias == <<LDI, 7, 5, CALL, 7>>

BadReg == {<<op, 8, 0>> : op \in {LDI, PRN, PUSH, JMP}}

NegSP == <<LDI, 7, 0, PUSH, 0, JMP, 7>>

Bare == {i1 \o i2 \o <<HLT>> : i1 \in Alphabet, i2 \in Alphabet}

Programs ==
    TwoStep \cup Bare \cup PushPop3 \cup BadReg \cup {Mult, CallRet, CallAlias, NegSP}

load(p) == [address \in 0..255 |-> IF address < Len(p) THEN p[address + 1] ELSE 0]

NoInstr == [op |-> 0, a |-> 0, b |-> 0, at |-> 0,
            reg |-> [i \in 0..7 |-> 0], flags |-> <<0, 0, 0>>]

Init ==
    /\ \E p \in Programs : ram = load(p)
    /\ reg = [i \in 0..7 |-> IF i = SP THEN 244 ELSE 0]
    /\ halted = FALSE
    /\ pc = 0
    /\ flags = <<0, 0, 0>>
    /\ output = <<>>
    /\ err = "none"
    /\ report = <<>>
    /\ last = NoInstr
    /\ last2 = NoInstr
    /\ lifo = [phase |-> "idle", pushed |-> <<>>, popped |-> <<>>, r7 |-> FALSE]
    /\ lastcall = [at |-> 0, sp |-> 0, live |-> FALSE]
    /\ traced = <<>>
    /\ seen = [wide |-> FALSE, r7target |-> FALSE, retreset |-> FALSE]
    /\ steps = 0

----------------------------------------------------------------------------
(* The loop of run(): fetch, size, dispatch, advance *)

Running_ignores_halted == err = "none"

Running == ~halted /\ err = "none"

FetchOK == RamOK(pc) /\ RamOK(pc + 1) /\ RamOK(pc + 2)

instruction == ram_read(pc)

operand_a == ram_read(pc + 1)

operand_b == ram_read(pc + 2)

instruction_size == ((instruction \div 64) % 4) + 1

SetsPC(i) == ((i \div 16) % 2) = 1

Fetched == Running /\ steps < MaxSteps /\ FetchOK

ValOK(v) == v <= MaxVal /\ v >= -MaxVal

Abs(v) == IF v < 0 THEN -v ELSE v

MulOK(x, y) == IF x = 0 THEN TRUE ELSE Abs(y) <= MaxVal \div Abs(x)

(* The PUSH / POP record: pushes made from the reset Stack Pointer, then   *)
(* the values the POPs left in their target registers; r7 notes an         *)
(* instruction that targeted register 7 once the pushes began.             *)
LifoStep(reg2, ram2) ==
    LET began == lifo.phase \in {"push", "pop"}
        r7 == lifo.r7 \/ (began /\ instruction \in {LDI, ADD, MUL, POP}
                                /\ RegIdx(operand_a) = SP)
        void == [lifo EXCEPT !.phase = "void"]
    IN  IF instruction = PUSH THEN
            IF lifo.phase = "idle" THEN
                IF reg[SP] = 244
                THEN [phase |-> "push", pushed |-> <<ram2[RamIdx(reg2[SP])]>>,
                      popped |-> <<>>, r7 |-> FALSE]
                ELSE void
            ELSE IF lifo.phase = "push"
            THEN [lifo EXCEPT !.pushed = Append(@, ram2[RamIdx(reg2[SP])])]
            ELSE void
        ELSE IF instruction = POP THEN
            IF lifo.phase = "idle" THEN lifo
            ELSE IF began /\ Len(lifo.popped) < Len(lifo.pushed)
            THEN [lifo EXCEPT !.phase = "pop",
                              !.popped = Append(@, reg2[RegIdx(operand_a)]),
                              !.r7 = r7]
            ELSE void
        ELSE IF instruction \in {CALL, RET} THEN
            IF lifo.phase = "idle" THEN lifo ELSE void
        ELSE [lifo EXCEPT !.r7 = r7]

Byte(v) == v >= 0 /\ v <= 255

SeenStep(reg2) ==
    [wide |-> seen.wide \/ \E i \in 0..7 : ~Byte(reg2[i]),
     r7target |-> seen.r7target
                  \/ (instruction \in {LDI, ADD, MUL, POP} /\ RegIdx(operand_a) = SP),
     retreset |-> seen.retreset \/ (instruction = RET /\ reg[SP] = 244)]

Complete_always_advances(reg2, ram2, flags2, pc2, halted2, out2) ==
    /\ reg' = reg2
    /\ ram' = ram2
    /\ flags' = flags2
    /\ halted' = halted2
    /\ output' = out2
    /\ pc' = pc2 + instruction_size
    /\ last' = [op |-> instruction, a |-> operand_a, b |-> operand_b, at |-> pc,
                reg |-> reg, flags |-> flags]
    /\ last2' = last
    /\ lifo' = LifoStep(reg2, ram2)
    /\ lastcall' = IF instruction = CALL
                   THEN [at |-> pc, sp |-> reg[SP], live |-> TRUE]
                   ELSE IF instruction = RET
                   THEN [lastcall EXCEPT !.live = FALSE]
                   ELSE lastcall
    /\ traced' = <<>>
    /\ seen' = SeenStep(reg2)
    /\ steps' = steps + 1
    /\ UNCHANGED <<err, report>>

(* The handler returned: run() advances pc unless bit 4 of the opcode is set *)
Complete(reg2, ram2, flags2, pc2, halted2, out2) ==
    /\ reg' = reg2
    /\ ram' = ram2
    /\ flags' = flags2
    /\ halted' = halted2
    /\ output' = out2
    /\ pc' = IF ~SetsPC(instruction) THEN pc2 + instruction_size ELSE pc2
    /\ last' = [op |-> instruction, a |-> operand_a, b |-> operand_b, at |-> pc,
                reg |-> reg, flags |-> flags]
    /\ last2' = last
    /\ lifo' = LifoStep(reg2, ram2)
    /\ lastcall' = IF instruction = CALL
                   THEN [at |-> pc, sp |-> reg[SP], live |-> TRUE]
                   ELSE IF instruction = RET
                   THEN [lastcall EXCEPT !.live = FALSE]
                   ELSE lastcall
    /\ traced' = <<>>
    /\ seen' = SeenStep(reg2)
    /\ steps' = steps + 1
    /\ UNCHANGED <<err, report>>

(* The handler raised IndexError: run() ends, keeping what was assigned *)
Raise(reg2, ram2) ==
    /\ reg' = reg2
    /\ ram' = ram2
    /\ err' = "IndexError"
    /\ seen' = [seen EXCEPT !.wide = @ \/ \E i \in 0..7 : ~Byte(reg2[i])]
    /\ UNCHANGED <<flags, halted, output, pc, report, last, last2, lifo, lastcall,
                   traced, steps>>

fetch_error ==
    /\ Running
    /\ ~FetchOK
    /\ Raise(reg, ram)

unknown ==
    /\ Running
    /\ FetchOK
    /\ instruction \notin branchtable
    /\ err' = "exit1"
    /\ report' = <<instruction, pc>>
    /\ UNCHANGED <<ram, reg, halted, pc, flags, output, last, last2, lifo, lastcall,
                   traced, seen, steps>>

trace_moves_pc ==
    /\ err = "none"
    /\ traced = <<>>
    /\ IF FetchOK
       THEN /\ traced' = <<pc, ram_read(pc), ram_read(pc + 1), ram_read(pc + 2), reg>>
            /\ pc' = pc + 2
            /\ UNCHANGED <<ram, reg, halted, flags, output, err, report, last,
                           last2, lifo, lastcall, seen, steps>>
       ELSE Raise(reg, ram)

(* trace(): a debugging aid that run() does not call; it may be called     *)
(* between cycles or after run() returned, and raises IndexError where the *)
(* fetch would.                                                            *)
trace ==
    /\ err = "none"
    /\ traced = <<>>
    /\ IF FetchOK
       THEN /\ traced' = <<pc, ram_read(pc), ram_read(pc + 1), ram_read(pc + 2), reg>>
            /\ UNCHANGED <<ram, reg, halted, pc, flags, output, err, report, last,
                           last2, lifo, lastcall, seen, steps>>
       ELSE Raise(reg, ram)

----------------------------------------------------------------------------
(* ALU: the registers and flags alu(op, reg_a, reg_b) leaves *)

alu_wrap8(op, reg_a, reg_b) ==
    LET x == reg[RegIdx(reg_a)]
        y == reg[RegIdx(reg_b)]
    IN  IF op = "ADD" THEN [reg |-> RegSet(reg, reg_a, (x + y) % 256), flags |-> flags]
        ELSE IF op = "SUB" THEN [reg |-> RegSet(reg, reg_a, (x - y) % 256), flags |-> flags]
        ELSE IF op = "MUL" THEN [reg |-> RegSet(reg, reg_a, (x * y) % 256), flags |-> flags]
        ELSE [reg |-> reg,
              flags |-> IF x > y THEN <<0, 1, 0>>
                        ELSE IF x < y THEN <<1, 0, 0>> ELSE <<0, 0, 1>>]

alu_cmp_keeps_equal(op, reg_a, reg_b) ==
    LET x == reg[RegIdx(reg_a)]
        y == reg[RegIdx(reg_b)]
    IN  IF op = "ADD" THEN [reg |-> RegSet(reg, reg_a, x + y), flags |-> flags]
        ELSE IF op = "SUB" THEN [reg |-> RegSet(reg, reg_a, x - y), flags |-> flags]
        ELSE IF op = "MUL" THEN [reg |-> RegSet(reg, reg_a, x * y), flags |-> flags]
        ELSE [reg |-> reg,
              flags |-> <<IF x < y THEN 1 ELSE 0, IF x > y THEN 1 ELSE 0,
                          IF x = y THEN 1 ELSE flags[3]>>]

alu(op, reg_a, reg_b) ==
    LET x == reg[RegIdx(reg_a)]
        y == reg[RegIdx(reg_b)]
    IN  IF op = "ADD" THEN [reg |-> RegSet(reg, reg_a, x + y), flags |-> flags]
        ELSE IF op = "SUB" THEN [reg |-> RegSet(reg, reg_a, x - y), flags |-> flags]
        ELSE IF op = "MUL" THEN [reg |-> RegSet(reg, reg_a, x * y), flags |-> flags]
        ELSE IF op = "CMP" THEN
            LET f1 == IF x = y THEN <<0, 0, 1>> ELSE flags
                f2 == IF x < y THEN <<1, 0, 0>> ELSE f1
                f3 == IF x > y THEN <<0, 1, 0>> ELSE f2
            IN  [reg |-> reg, flags |-> f3]
        ELSE [reg |-> reg, flags |-> flags]  \* raise Exception: no handler passes another op

----------------------------------------------------------------------------
(* Instruction handlers, each as one cycle of run() *)

hlt ==
    /\ Fetched
    /\ instruction = HLT
    /\ Complete(reg, ram, flags, pc, TRUE, output)

ldi ==
    /\ Fetched
    /\ instruction = LDI
    /\ IF RegOK(operand_a)
       THEN Complete(RegSet(reg, operand_a, operand_b), ram, flags, pc, halted, output)
       ELSE Raise(reg, ram)

prn_prints_operand ==
    /\ Fetched
    /\ instruction = PRN
    /\ IF RegOK(operand_a)
       THEN Complete(reg, ram, flags, pc, halted, Append(output, operand_a))
       ELSE Raise(reg, ram)

prn ==
    /\ Fetched
    /\ instruction = PRN
    /\ IF RegOK(operand_a)
       THEN Complete(reg, ram, flags, pc, halted, Append(output, reg[RegIdx(operand_a)]))
       ELSE Raise(reg, ram)

mul_adds ==
    /\ Fetched
    /\ instruction = MUL
    /\ IF RegOK(operand_a) /\ RegOK(operand_b)
       THEN LET r == alu("ADD", operand_a, operand_b)
            IN  /\ MulOK(reg[RegIdx(operand_a)], reg[RegIdx(operand_b)])
                /\ Complete(r.reg, ram, r.flags, pc, halted, output)
       ELSE Raise(reg, ram)

mul ==
    /\ Fetched
    /\ instruction = MUL
    /\ IF RegOK(operand_a) /\ RegOK(operand_b)
       THEN LET r == alu("MUL", operand_a, operand_b)
            IN  /\ MulOK(reg[RegIdx(operand_a)], reg[RegIdx(operand_b)])
                /\ Complete(r.reg, ram, r.flags, pc, halted, output)
       ELSE Raise(reg, ram)

add_clears_flags ==
    /\ Fetched
    /\ instruction = ADD
    /\ IF RegOK(operand_a) /\ RegOK(operand_b)
       THEN LET r == alu("ADD", operand_a, operand_b)
            IN  /\ ValOK(reg[RegIdx(operand_a)] + reg[RegIdx(operand_b)])
                /\ Complete(r.reg, ram, <<0, 0, 0>>, pc, halted, output)
       ELSE Raise(reg, ram)

add ==
    /\ Fetched
    /\ instruction = ADD
    /\ IF RegOK(operand_a) /\ RegOK(operand_b)
       THEN LET r == alu("ADD", operand_a, operand_b)
            IN  /\ ValOK(reg[RegIdx(operand_a)] + reg[RegIdx(operand_b)])
                /\ Complete(r.reg, ram, r.flags, pc, halted, output)
       ELSE Raise(reg, ram)

cmp ==
    /\ Fetched
    /\ instruction = CMP
    /\ IF RegOK(operand_a) /\ RegOK(operand_b)
       THEN LET r == alu("CMP", operand_a, operand_b)
            IN  Complete(r.reg, ram, r.flags, pc, halted, output)
       ELSE Raise(reg, ram)

push_post_decrement ==
    /\ Fetched
    /\ instruction = PUSH
    /\ LET reg1 == [reg EXCEPT ![SP] = reg[SP] - 1]
       IN  IF RegOK(operand_a) /\ RamOK(reg[SP])
           THEN Complete(reg1, ram_write(ram, reg[SP], reg[RegIdx(operand_a)]),
                         flags, pc, halted, output)
           ELSE Raise(reg, ram)

push_stores_sp ==
    /\ Fetched
    /\ instruction = PUSH
    /\ LET reg1 == [reg EXCEPT ![SP] = reg[SP] - 1]
       IN  IF RegOK(operand_a) /\ RamOK(reg1[SP])
           THEN Complete(reg1, ram_write(ram, reg1[SP], reg1[SP]),
                         flags, pc, halted, output)
           ELSE Raise(reg1, ram)

push ==
    /\ Fetched
    /\ instruction = PUSH
    /\ LET reg1 == [reg EXCEPT ![SP] = reg[SP] - 1]
       IN  IF RegOK(operand_a) /\ RamOK(reg1[SP])
           THEN Complete(reg1, ram_write(ram, reg1[SP], reg1[RegIdx(operand_a)]),
                         flags, pc, halted, output)
           ELSE Raise(reg1, ram)

pop_no_empty_test ==
    /\ Fetched
    /\ instruction = POP
    /\ IF ~RamOK(reg[SP]) \/ ~RegOK(operand_a)
       THEN Raise(reg, ram)
       ELSE LET reg1 == RegSet(reg, operand_a, ram_read(reg[SP]))
            IN  Complete([reg1 EXCEPT ![SP] = reg1[SP] + 1], ram, flags, pc,
                         halted, output)

pop_no_increment ==
    /\ Fetched
    /\ instruction = POP
    /\ IF reg[SP] = 244
       THEN Complete(reg, ram, flags, pc, halted, output)
       ELSE IF ~RamOK(reg[SP]) \/ ~RegOK(operand_a)
       THEN Raise(reg, ram)
       ELSE Complete(RegSet(reg, operand_a, ram_read(reg[SP])), ram, flags, pc,
                     halted, output)

pop_clears_cell ==
    /\ Fetched
    /\ instruction = POP
    /\ IF reg[SP] = 244
       THEN Complete(reg, ram, flags, pc, halted, output)
       ELSE IF ~RamOK(reg[SP]) \/ ~RegOK(operand_a)
       THEN Raise(reg, ram)
       ELSE LET reg1 == RegSet(reg, operand_a, ram_read(reg[SP]))
            IN  Complete([reg1 EXCEPT ![SP] = reg1[SP] + 1],
                         ram_write(ram, reg[SP], 0), flags, pc, halted, output)

pop ==
    /\ Fetched
    /\ instruction = POP
    /\ IF reg[SP] = 244
       THEN Complete(reg, ram, flags, pc, halted, output)   \* return 'Empty Stack'
       ELSE IF ~RamOK(reg[SP]) \/ ~RegOK(operand_a)
       THEN Raise(reg, ram)
       ELSE LET reg1 == RegSet(reg, operand_a, ram_read(reg[SP]))
            IN  Complete([reg1 EXCEPT ![SP] = reg1[SP] + 1], ram, flags, pc,
                         halted, output)

call ==
    /\ Fetched
    /\ instruction = CALL
    /\ LET return_addr == pc + 2
           reg1 == [reg EXCEPT ![SP] = reg[SP] - 1]
       IN  IF ~RamOK(reg1[SP])
           THEN Raise(reg1, ram)
           ELSE LET ram1 == ram_write(ram, reg1[SP], return_addr)
                    reg_num == ram1[RamIdx(pc + 1)]
                IN  IF ~RegOK(reg_num)
                    THEN Raise(reg1, ram1)
                    ELSE Complete(reg1, ram1, flags, reg1[RegIdx(reg_num)],
                                  halted, output)

ret ==
    /\ Fetched
    /\ instruction = RET
    /\ LET value == reg[SP]
       IN  IF ~RamOK(value)
           THEN Raise(reg, ram)
           ELSE Complete([reg EXCEPT ![SP] = reg[SP] + 1], ram, flags,
                         ram[RamIdx(value)], halted, output)

jmp ==
    /\ Fetched
    /\ instruction = JMP
    /\ IF RegOK(operand_a)
       THEN Complete(reg, ram, flags, reg[RegIdx(operand_a)], halted, output)
       ELSE Raise(reg, ram)

jeq ==
    /\ Fetched
    /\ instruction = JEQ
    /\ IF flags[3] # 0
       THEN IF RegOK(operand_a)
            THEN Complete(reg, ram, flags, reg[RegIdx(operand_a)], halted, output)
            ELSE Raise(reg, ram)
       ELSE Complete(reg, ram, flags, pc + 2, halted, output)

jne_inverted ==
    /\ Fetched
    /\ instruction = JNE
    /\ IF flags[3] # 0
       THEN IF RegOK(operand_a)
            THEN Complete(reg, ram, flags, reg[RegIdx(operand_a)], halted, output)
            ELSE Raise(reg, ram)
       ELSE Complete(reg, ram, flags, pc + 2, halted, output)

jne ==
    /\ Fetched
    /\ instruction = JNE
    /\ IF flags[3] = 0
       THEN IF RegOK(operand_a)
            THEN Complete(reg, ram, flags, reg[RegIdx(operand_a)], halted, output)
            ELSE Raise(reg, ram)
       ELSE Complete(reg, ram, flags, pc + 2, halted, output)

Next ==
    \/ fetch_error
    \/ unknown
    \/ hlt
    \/ ldi
    \/ prn
    \/ mul
    \/ add
    \/ cmp
    \/ push
    \/ pop
    \/ call
    \/ ret
    \/ jmp
    \/ jeq
    \/ jne
    \/ trace

Spec == Init /\ [][Next]_vars

(* run() is a loop that nothing suspends: a cycle that can be taken is taken *)
FairSpec == Spec /\ WF_vars(Next)

----------------------------------------------------------------------------
(* Properties.  last and last2 describe the cycles that completed; a      *)
(* handler that raises IndexError may already have assigned a register or  *)
(* a cell, so what relates them to reg holds while err = "none".           *)

Executing(op) == Fetched /\ instruction = op

(* A step of run()'s loop, as opposed to a call of trace() between two     *)
(* cycles                                                                  *)
RunStep == traced' = <<>>

RegIndex(i) == i \in 0..7

(* C1: when CMP a,b is executed and the next instruction executed is JEQ r, *)
(* the program counter becomes register[r] if register[a] = register[b]    *)
(* and the JEQ's address + 2 otherwise; with JNE r in its place it becomes *)
(* register[r] if register[a] # register[b] and the JNE's address + 2      *)
(* otherwise.                                                              *)
C1_CmpThenJump ==
    (last2.op = CMP /\ last.op \in {JEQ, JNE}
        /\ RegIndex(last2.a) /\ RegIndex(last2.b))
    => LET equal == last2.reg[last2.a] = last2.reg[last2.b]
           taken == IF last.op = JEQ THEN equal ELSE ~equal
       IN  IF taken
           THEN RegIndex(last.a) => pc = last.reg[last.a]
           ELSE pc = last.at + 2

C1_Witness ==
    /\ last2.op = CMP
    /\ last.op = JEQ
    /\ last2.reg[last2.a] = last2.reg[last2.b]
    /\ last2.a # last2.b
    /\ pc = last.reg[last.a]
    /\ pc # last.at + 2

(* C2: CALL r executed at address p sets the program counter to            *)
(* register[r], decrements the Stack Pointer and stores p + 2 in the cell  *)
(* it then addresses; a later RET that finds the Stack Pointer where the   *)
(* CALL left it and the return cell still holding p + 2 sets the program   *)
(* counter to p + 2 and the Stack Pointer to its value before the CALL.    *)
C2_CallThenRet ==
    [][ /\ (Executing(CALL) /\ RunStep /\ RegIndex(operand_a) /\ RamOK(reg[SP] - 1))
            => /\ err' = "none"
               /\ pc' = reg'[operand_a]
               /\ reg'[SP] = reg[SP] - 1
               /\ ram'[RamIdx(reg'[SP])] = pc + 2
        /\ (Executing(RET) /\ RunStep /\ lastcall.live /\ reg[SP] = lastcall.sp - 1
                /\ RamOK(reg[SP]) /\ ram_read(reg[SP]) = lastcall.at + 2)
            => /\ pc' = lastcall.at + 2
               /\ reg'[SP] = lastcall.sp
      ]_vars

(* C3: PUSH reg followed immediately by POP reg, reg in 0..7, restores     *)
(* register[reg] and the Stack Pointer to their values before the PUSH.    *)
C3_PushPopRestores ==
    (err = "none" /\ last2.op = PUSH /\ last.op = POP /\ last.a = last2.a
        /\ RegIndex(last.a))
    => /\ reg[last.a] = last2.reg[last.a]
       /\ reg[SP] = last2.reg[SP]

(* C3 as amended: the same, except that a PUSH made with the Stack Pointer *)
(* at 0xF5 leaves it at 0xF4, where POP takes the stack to be empty and    *)
(* does nothing: the Stack Pointer then stays at 0xF4.                     *)
C3_PushPopRestoresAmended ==
    (err = "none" /\ last2.op = PUSH /\ last.op = POP /\ last.a = last2.a
        /\ RegIndex(last.a))
    => IF last2.reg[SP] = 245
       THEN /\ reg[SP] = 244
            /\ last.a # SP => reg[last.a] = last2.reg[last.a]
       ELSE /\ reg[last.a] = last2.reg[last.a]
            /\ reg[SP] = last2.reg[SP]

C3_Witness ==
    /\ last2.op = PUSH
    /\ last.op = POP
    /\ last.a = last2.a
    /\ RegIndex(last.a)
    /\ last2.reg[SP] # 245
    /\ last2.reg[last.a] # 0
    /\ reg[last.a] = last2.reg[last.a]
    /\ reg[SP] = last2.reg[SP]
    /\ last.reg[SP] = last2.reg[SP] - 1

LifoOrder ==
    \A i \in 1..Len(lifo.popped) :
        lifo.popped[i] = lifo.pushed[Len(lifo.pushed) + 1 - i]

LifoBalanced == Len(lifo.popped) = Len(lifo.pushed) => reg[SP] = 244

(* C4: from the reset Stack Pointer 0xF4, after n PUSHes of v1..vn         *)
(* followed by n POPs with no other stack instruction in between, the POPs *)
(* deliver vn, ..., v1 in that order and the Stack Pointer is 0xF4 again.  *)
C4_Lifo ==
    (err = "none" /\ lifo.phase \in {"push", "pop"}) => LifoOrder /\ LifoBalanced

(* C4 as amended: the same, provided no instruction in between targets     *)
(* register 7 (LDI, ADD, MUL or POP into register 7).                      *)
C4_LifoAmended ==
    (err = "none" /\ lifo.phase \in {"push", "pop"} /\ ~lifo.r7)
    => LifoOrder /\ LifoBalanced

C4_Witness ==
    /\ lifo.phase = "pop"
    /\ ~lifo.r7
    /\ lifo.pushed = <<1, 2, 3>>
    /\ lifo.popped = <<3, 2, 1>>
    /\ reg[SP] = 244

(* C5: when the byte fetched at the program counter is not one of the 13   *)
(* opcodes of the dispatch table, execution ends at once with the          *)
(* unknown-instruction error reporting that byte and that address, and no  *)
(* register, memory cell, flag, the program counter or Halted changes.     *)
C5_UnknownOpcode ==
    [][ (Running /\ RunStep /\ RamOK(pc) /\ ram_read(pc) \notin branchtable)
            => /\ err' = "exit1"
               /\ report' = <<ram_read(pc), pc>>
               /\ UNCHANGED machine
      ]_vars

(* C6: POP reg executed while the Stack Pointer is 0xF4 leaves the target  *)
(* register, the Stack Pointer, memory and flags unchanged, does not halt  *)
(* the machine or end it with an error, and execution continues at the     *)
(* POP's address + 2.                                                      *)
C6_PopEmpty ==
    [][ (Executing(POP) /\ RunStep /\ reg[SP] = 244)
            => /\ UNCHANGED <<reg, ram, flags, halted, err>>
               /\ ~halted'
               /\ err' = "none"
               /\ pc' = pc + 2
      ]_vars

C6_Witness ==
    /\ last.op = POP
    /\ last.reg[SP] = 244
    /\ reg = last.reg
    /\ pc = last.at + 2
    /\ err = "none"
    /\ ram[244] # 0

(* C7: after every CMP a,b exactly one of Less, Greater, Equal is 1 and    *)
(* the other two are 0, Less iff register[a] < register[b], Greater iff    *)
(* register[a] > register[b], Equal iff they are equal; so in every        *)
(* reachable state the flags are all zero or have exactly one bit set.     *)
C7_FlagsOneHot ==
    /\ flags \in {<<0, 0, 0>>, <<1, 0, 0>>, <<0, 1, 0>>, <<0, 0, 1>>}
    /\ (last.op = CMP /\ RegIndex(last.a) /\ RegIndex(last.b))
        => LET x == last.reg[last.a]
               y == last.reg[last.b]
           IN  flags = <<IF x < y THEN 1 ELSE 0,
                         IF x > y THEN 1 ELSE 0,
                         IF x = y THEN 1 ELSE 0>>

C7_Witness ==
    /\ last.op = CMP
    /\ last2.op = CMP
    /\ last.flags = <<0, 0, 1>>
    /\ flags = <<1, 0, 0>>

(* C8: every instruction other than CMP leaves the three flags as they     *)
(* were before the instruction.                                            *)
C8_FlagsFrame ==
    [][ (Fetched /\ instruction \in branchtable \ {CMP}) => flags' = flags ]_vars

C8_Witness ==
    /\ last.op = ADD
    /\ last2.op = CMP
    /\ flags = <<0, 1, 0>>

(* C9: Halted is false initially, changes from false to true only in a     *)
(* cycle whose fetched opcode is HLT, and once it is true no instruction   *)
(* is fetched or executed and nothing changes again.                       *)
C9_HaltedTerminal ==
    /\ halted = FALSE
    /\ [][ /\ (~halted /\ halted') => (FetchOK /\ instruction = HLT)
           /\ halted => UNCHANGED <<machine, output, err, report, last, last2, steps>>
         ]_vars

C9_Witness ==
    /\ halted
    /\ last.op = HLT
    /\ ram_read(pc) \in branchtable
    /\ steps < MaxSteps

(* C10: ADD a,b and MUL a,b replace register[a] by the exact integer sum,  *)
(* respectively product, of the prior register[a] and register[b], with no *)
(* wrapping to 8 bits, and are commutative: from one state, ADD(a,b)       *)
(* leaves in register a what ADD(b,a) leaves in register b; so does MUL.   *)
C10_AddMulExact ==
    /\ (err = "none" /\ last.op = ADD /\ RegIndex(last.a) /\ RegIndex(last.b))
        => reg = [last.reg EXCEPT ![last.a] = last.reg[last.a] + last.reg[last.b]]
    /\ (err = "none" /\ last.op = MUL /\ RegIndex(last.a) /\ RegIndex(last.b))
        => reg = [last.reg EXCEPT ![last.a] = last.reg[last.a] * last.reg[last.b]]
    /\ \A a \in 0..7, b \in 0..7 :
        /\ alu("ADD", a, b).reg[a] = alu("ADD", b, a).reg[b]
        /\ alu("MUL", a, b).reg[a] = alu("MUL", b, a).reg[b]

C10_Witness ==
    /\ last.op \in {ADD, MUL}
    /\ last.a # last.b
    /\ reg[last.a] > 255
    /\ last.reg[last.b] > 1

(* C11: for reg in 0..7 and an immediate value, LDI reg,value followed by   *)
(* PRN reg appends exactly value to the output, and PRN changes no         *)
(* register, memory cell or flag.                                          *)
C11_LdiThenPrn ==
    [][ (Executing(PRN) /\ RunStep)
            => /\ UNCHANGED <<reg, ram, flags>>
               /\ (last.op = LDI /\ last.a = operand_a /\ RegIndex(operand_a))
                    => output' = Append(output, last.b)
      ]_vars

C11_Witness ==
    /\ last2.op = LDI
    /\ last.op = PRN
    /\ last.a = last2.a
    /\ last2.b = 243
    /\ output = <<243>>
    /\ reg = last.reg

(* C12: from the initial state with LDI R0 8; LDI R1 9; MUL R0 R1; PRN R0; *)
(* HLT loaded at address 0, the machine eventually halts, the output is    *)
(* exactly 72 and the final program counter is 12, one past the HLT.       *)
C12_MultHalts ==
    /\ (ram = load(Mult)) => <>(halted /\ output = <<72>> /\ pc = 12)
    /\ []((ram = load(Mult) /\ halted) => (output = <<72>> /\ pc = 12))

C12_Witness ==
    /\ ram = load(Mult)
    /\ halted
    /\ output = <<72>>
    /\ pc = 12
    /\ last.op = HLT
    /\ last.at = 11

(* C13: trace() is a pure read: called in any state, it leaves memory,     *)
(* registers, flags, the program counter and Halted unchanged, also where  *)
(* one of its three reads of memory raises IndexError.                     *)
C13_TracePure ==
    [][ ((traced' # traced /\ traced' # <<>>) \/ (err = "none" /\ ~FetchOK))
            => UNCHANGED machine ]_vars

C13_Witness ==
    /\ traced # <<>>
    /\ steps > 0
    /\ traced[1] = pc
    /\ traced[5] = reg
    /\ halted

(* C14: after every executed instruction, if bit 4 of the opcode is 0 the  *)
(* new program counter is the old one plus (bits 7-6 of the opcode) + 1;   *)
(* if bit 4 is 1 it is exactly the value the handler set; the handlers     *)
(* that set it are those of the opcodes with bit 4 set.                    *)
C14_PcRule ==
    [][ (steps' = steps + 1)
            => /\ instruction \in branchtable
               /\ ~SetsPC(instruction)
                    <=> instruction \in {HLT, LDI, PRN, MUL, ADD, CMP, PUSH, POP}
               /\ IF ~SetsPC(instruction)
                  THEN pc' = pc + ((instruction \div 64) % 4) + 1
                  ELSE pc' = CASE instruction = JMP -> reg[RegIdx(operand_a)]
                               [] instruction = JEQ ->
                                    IF flags[3] # 0 THEN reg[RegIdx(operand_a)] ELSE pc + 2
                               [] instruction = JNE ->
                                    IF flags[3] = 0 THEN reg[RegIdx(operand_a)] ELSE pc + 2
                               [] instruction = RET -> ram_read(reg[SP])
                               [] instruction = CALL ->
                                    reg'[RegIdx(ram'[RamIdx(pc + 1)])]
      ]_vars

C14_Witness ==
    /\ last.op = JMP
    /\ pc = last.reg[last.a]
    /\ pc # last.at + 2
    /\ last2.op \in {MUL, ADD}
    /\ last.at = last2.at + 3

(* C15: in every reachable non-halted state the three addresses the fetch  *)
(* reads, pc, pc + 1 and pc + 2, lie within 0..255.                        *)
C15_FetchSafe ==
    Running => (Byte(pc) /\ Byte(pc + 1) /\ Byte(pc + 2))

(* C16: in every reachable state the program counter is in 0..255.         *)
C16_PcRange == Byte(pc)

(* C17: in every reachable state every one of the 256 memory cells holds a *)
(* value in 0..255, the cells written by PUSH and CALL included.           *)
C17_CellsAreBytes == \A c \in 0..255 : Byte(ram[c])

(* C17 as amended: PUSH stores the register's value as it is and CALL the  *)
(* return address; every cell holds a value in 0..255 as long as no        *)
(* register has held a value outside 0..255.                               *)
C17_CellsAreBytesAmended ==
    /\ ~seen.wide => \A c \in 0..255 : Byte(ram[c])
    /\ (err = "none" /\ last.op = PUSH /\ RegIndex(last.a))
        => ram_read(reg[SP]) = reg[last.a]
    /\ (err = "none" /\ last.op = CALL) => ram_read(reg[SP]) = last.at + 2

C17_Witness ==
    /\ err = "none"
    /\ ~seen.wide
    /\ last.op = PUSH
    /\ last.a = 0
    /\ ram_read(reg[SP]) = 254
    /\ reg[SP] = 243

(* C18: in every state reached by a program that never makes register 7    *)
(* the target of LDI, ADD, MUL or POP, the Stack Pointer is at most 0xF4.  *)
C18_NoUnderflow == ~seen.r7target => reg[SP] <= 244

(* C18 as amended: the same, provided also that no RET has run with the    *)
(* Stack Pointer at 0xF4: RET has no empty-stack test.                     *)
C18_NoUnderflowAmended ==
    (~seen.r7target /\ ~seen.retreset) => reg[SP] <= 244

C18_Witness ==
    /\ err = "none"
    /\ ~seen.r7target
    /\ ~seen.retreset
    /\ last.op = POP
    /\ last.reg[SP] = 244
    /\ last2.op = POP
    /\ last2.reg[SP] = 244
    /\ reg[SP] = 244

(* C19: memory is written only by PUSH and CALL, each writing one cell,    *)
(* the one the Stack Pointer addresses after its decrement; every other    *)
(* instruction leaves all 256 cells unchanged.                             *)
C19_MemoryFrame ==
    [][ IF Fetched /\ instruction \in {PUSH, CALL}
        THEN \A c \in 0..255 :
                IF RamOK(reg'[SP]) /\ c = RamIdx(reg'[SP])
                THEN ram'[c] = ram[c]
                     \/ ram'[c] = (IF instruction = PUSH
                                   THEN reg'[RegIdx(operand_a)] ELSE pc + 2)
                ELSE ram'[c] = ram[c]
        ELSE ram' = ram
      ]_vars

C19_Witness ==
    /\ err = "none"
    /\ last.op = CALL
    /\ ram_read(reg[SP]) = last.at + 2
    /\ reg[SP] = last.reg[SP] - 1
    /\ last2.op = PUSH
    /\ ram_read(reg[SP] + 1) = 254

====
